---- MODULE Spec2Model ----
(***************************************************************************)
(* A model of the LlamaPay client (llamapay/llamapay.py): one Pool with    *)
(* its log cache (_last_logs_block, _logs, _streams), the ledger whose     *)
(* events the cache folds, the Stream write operations that submit         *)
(* transactions to it, and the Pool token operations (approve, deposit,    *)
(* withdraw).                                                              *)
(*                                                                         *)
(* Blocks are numbered from 1; chain[n] is the sequence of events the pool *)
(* emitted in block n.  Every transaction is mined in a block of its own.  *)
(***************************************************************************)
EXTENDS Integers, Sequences, FiniteSets, TLC

VARIABLES
    chain,            \* the ledger: chain[n] = events emitted by the pool in block n
    ledger,           \* the contract's state: the keys of the streams that are running
    height,           \* what chain_manager.blocks.height reports
    last_logs_block,  \* Pool._last_logs_block
    logs,             \* Pool._logs
    streams,          \* Pool._streams
    allowance,        \* token.allowance(sender, pool), in base units
    balance,          \* the sender's funding balance in the pool, in base units
    op,               \* the last client call: its name, inputs, outcome and result
    pools,            \* the factory contract: the tokens it has deployed a pool for
    held,             \* the Rate object the caller holds
    threads           \* the calls of _refresh_logs in flight, each with its locals

vars == <<chain, ledger, height, last_logs_block, logs, streams, allowance,
          balance, op, pools, held, threads>>

cacheVars == <<last_logs_block, logs, streams>>

\* what the operations of one Pool and its Streams never touch
restVars == <<pools, held, threads>>

----------------------------------------------------------------------------
(* Bounds of the model *)

\* the chain grows to at most this many blocks
MaxHeight == 3

\* the chain of the long runs, with a single payer and recipient, grows to
\* at most this many blocks
LongHeight == 4

\* amounts passed to approve / deposit / withdraw range over 0..MaxAmount tokens
MaxAmount == 2

(* Program constants *)

\* factory.deployment.deploy_block: the block the cache starts from
deploy_block == 1

\* block_page_size of get_contract_logs (10_000 in the source; scaled down so
\* that a fetch of a few blocks spans several pages)
block_page_size == 2

\* 10 ** token.decimals(), for a token of one decimal
scale == 10

\* 2**256 - 1, the infinite allowance, scaled down with the amounts
MaxUint == 99

Addresses == {"ape", "babe"}

Rates == {1, 2}

NoAddress == "0x0"

None == "None"

\* an omitted amount (amount=None, the default of approve and withdraw)
NoAmount == -1

----------------------------------------------------------------------------
(* Events of the LlamaPay contract *)

Event(name, from, to, rate, oldTo, oldRate, amount) ==
    [name |-> name, from |-> from, to |-> to, amountPerSec |-> rate,
     oldTo |-> oldTo, oldAmountPerSec |-> oldRate, amount |-> amount]

StreamCreated(from, to, rate) ==
    Event("StreamCreated", from, to, rate, NoAddress, 0, 0)

StreamCreatedWithReason(from, to, rate) ==
    Event("StreamCreatedWithReason", from, to, rate, NoAddress, 0, 0)

StreamCancelled(from, to, rate) ==
    Event("StreamCancelled", from, to, rate, NoAddress, 0, 0)

StreamPaused(from, to, rate) ==
    Event("StreamPaused", from, to, rate, NoAddress, 0, 0)

StreamModified(from, oldTo, oldRate, to, rate) ==
    Event("StreamModified", from, to, rate, oldTo, oldRate, 0)

Withdraw(from, to, rate) ==
    Event("Withdraw", from, to, rate, NoAddress, 0, 0)

PayerDeposit(from, amount) ==
    Event("PayerDeposit", from, NoAddress, 0, NoAddress, 0, amount)

PayerWithdraw(from, amount) ==
    Event("PayerWithdraw", from, NoAddress, 0, NoAddress, 0, amount)

\* the (from, to, amountPerSec) key the contract files a stream under
Key(from, to, rate) == <<from, to, rate>>

\* the ledger's set of live streams after one more event
ApplyEvent(live, e) ==
    CASE e.name \in {"StreamCreated", "StreamCreatedWithReason"} ->
            live \cup {Key(e.from, e.to, e.amountPerSec)}
      [] e.name \in {"StreamCancelled", "StreamPaused"} ->
            live \ {Key(e.from, e.to, e.amountPerSec)}
      [] e.name = "StreamModified" ->
            (live \ {Key(e.from, e.oldTo, e.oldAmountPerSec)})
                \cup {Key(e.from, e.to, e.amountPerSec)}
      [] OTHER -> live

RECURSIVE ApplyEvents(_, _)
ApplyEvents(live, es) ==
    IF es = <<>> THEN live
    ELSE ApplyEvents(ApplyEvent(live, Head(es)), Tail(es))

\* all events of blocks from..to of ch, in block and log order
RECURSIVE EventsIn(_, _, _)
EventsIn(ch, from, to) ==
    IF from > to THEN <<>>
    ELSE EventsIn(ch, from, to - 1) \o ch[to]

\* the streams live on the ledger as of block n
LiveAt(ch, n) == ApplyEvents({}, EventsIn(ch, 1, n))

----------------------------------------------------------------------------
(* The last client call *)

\* name: the method called; args: its arguments; outcome: "ok" or the error
\* raised; head: the height read by a refresh (0: none read); fetched: whether
\* get_contract_logs was called; result: the streams returned; calls: the
\* transactions submitted, in order; receipt: the events of the last one
Call(name, args, outcome, head, fetched, result, calls, receipt) ==
    [name |-> name, args |-> args, outcome |-> outcome, head |-> head,
     fetched |-> fetched, result |-> result, calls |-> calls,
     receipt |-> receipt]

NoCall == Call("init", <<>>, "ok", 0, FALSE, <<>>, <<>>, <<>>)

----------------------------------------------------------------------------
(* Pool._refresh_logs *)

\* provider.get_contract_logs(start_block, stop_block, block_page_size): the
\* events of the pages [p, p + block_page_size - 1] that cover start..stop
RECURSIVE get_contract_logs(_, _, _)
get_contract_logs(ch, start, stop) ==
    IF start > stop THEN <<>>
    ELSE LET pageStop == IF start + block_page_size - 1 < stop
                         THEN start + block_page_size - 1 ELSE stop
         IN EventsIn(ch, start, pageStop) \o get_contract_logs(ch, pageStop + 1, stop)

\* the early return left out
NeverUpToDate(start, head) == FALSE

\* the early return taken only when the checkpoint is past the head
StrictlyUpToDate(start, head) == start > head

\* line 112: the early return
UpToDate(start, head) == start >= head

\* line 124: the checkpoint after a fetch up to head
NextLogsBlock(head) == head + 1

\* the test on the event's name left out
IsAnyLog(log) == TRUE

\* line 128: the events that make a Stream
IsStreamLog(log) ==
    log.name \in {"StreamCreated", "StreamCreatedWithReason", "StreamModified"}

\* the Stream built from the old recipient and rate of a log
StreamOfOldSide(log) ==
    [source |-> log.from, target |-> log.oldTo, rate |-> log.oldAmountPerSec]

\* lines 130-135: the Stream built from a log
StreamOf(log) ==
    [source |-> log.from, target |-> log.to, rate |-> log.amountPerSec]

\* lines 127-136: the streams appended for a list of logs
RECURSIVE FoldLogs(_)
FoldLogs(ls) ==
    IF ls = <<>> THEN <<>>
    ELSE (IF IsStreamLog(Head(ls)) THEN <<StreamOf(Head(ls))>> ELSE <<>>)
            \o FoldLogs(Tail(ls))

Cache(last, ls, ss) == [last_logs_block |-> last, logs |-> ls, streams |-> ss]

\* a refresh that drops the cached streams no longer running on the ledger
refresh_logs_evicting(cache, head, ch) ==
    LET start == cache.last_logs_block
        Running(s) == Key(s.source, s.target, s.rate) \in LiveAt(ch, head)
    IN  IF UpToDate(start, head) THEN cache
        ELSE LET fetched == get_contract_logs(ch, start, head) IN
             Cache(NextLogsBlock(head),
                   cache.logs \o fetched,
                   SelectSeq(cache.streams \o FoldLogs(fetched), Running))

\* the whole of _refresh_logs, as a function of the cache, the height read and
\* the chain
refresh_logs(cache, head, ch) ==
    LET start == cache.last_logs_block IN
    IF UpToDate(start, head) THEN cache
    ELSE LET fetched == get_contract_logs(ch, start, head) IN
         Cache(NextLogsBlock(head),
               cache.logs \o fetched,
               cache.streams \o FoldLogs(fetched))

CurrentCache == Cache(last_logs_block, logs, streams)

SetCache(cache) ==
    /\ last_logs_block' = cache.last_logs_block
    /\ logs' = cache.logs
    /\ streams' = cache.streams

\* _refresh_logs when building the Stream of the k-th fetched log raises: the
\* checkpoint and _logs are already written (lines 124-125), the streams of
\* the logs before the k-th are appended
refresh_logs_raising(cache, head, ch, k) ==
    LET fetched == get_contract_logs(ch, cache.last_logs_block, head) IN
    Cache(NextLogsBlock(head),
          cache.logs \o fetched,
          cache.streams \o FoldLogs(SubSeq(fetched, 1, k - 1)))

----------------------------------------------------------------------------
(* Pool.all_streams and Pool.find_streams *)

\* conversion_manager.convert(ref, AddressType): an address converts to
\* itself, an ENS name to the address it names
EnsNames == {"ape.eth"}

convert(ref) == IF ref \in EnsNames THEN "ape" ELSE ref

\* the filters find_streams is called with: none, an address, an ENS name
Queries == {None, "babe", "ape.eth"}

\* Python truthiness of an Optional[AddressType]
Truthy(x) == x # None

\* the filter with the two tests joined by or
MatchesEither(s, source, target) ==
    \/ Truthy(source) /\ s.source = source
    \/ Truthy(target) /\ s.target = target

\* lines 155-160: the filter of the list comprehension
Matches(s, source, target) ==
    /\ Truthy(source) => s.source = source
    /\ Truthy(target) => s.target = target

RECURSIVE Filter(_, _, _)
Filter(ss, source, target) ==
    IF ss = <<>> THEN <<>>
    ELSE (IF Matches(Head(ss), source, target) THEN <<Head(ss)>> ELSE <<>>)
            \o Filter(Tail(ss), source, target)

\* find_streams refreshing before it looks at its filters
find_streams_refreshing_first(cache, head, ch, source, target) ==
    LET src == IF Truthy(source) THEN convert(source) ELSE source
        tgt == IF Truthy(target) THEN convert(target) ELSE target
        after == refresh_logs(cache, head, ch)
    IN  IF Truthy(src) \/ Truthy(tgt)
        THEN [cache |-> after, outcome |-> "ok", refreshed |-> TRUE,
              result |-> Filter(after.streams, src, tgt)]
        ELSE [cache |-> after, outcome |-> "ValueError", refreshed |-> FALSE,
              result |-> <<>>]

\* find_streams as a function: the cache it leaves, its outcome, its result
find_streams(cache, head, ch, source, target) ==
    LET src == IF Truthy(source) THEN convert(source) ELSE source
        tgt == IF Truthy(target) THEN convert(target) ELSE target
    IN  IF Truthy(src) \/ Truthy(tgt)
        THEN LET after == refresh_logs(cache, head, ch) IN
             [cache |-> after, outcome |-> "ok", refreshed |-> TRUE,
              result |-> Filter(after.streams, src, tgt)]
        ELSE [cache |-> cache, outcome |-> "ValueError", refreshed |-> FALSE,
              result |-> <<>>]

AllStreams ==
    LET after == refresh_logs(CurrentCache, height, chain) IN
    /\ SetCache(after)
    /\ op' = Call("all_streams", <<>>, "ok", height,
                  ~UpToDate(last_logs_block, height), after.streams, <<>>, <<>>)
    /\ UNCHANGED <<chain, ledger, height, allowance, balance, restVars>>

FindStreams ==
    \E source \in Queries, target \in Queries :
        LET r == find_streams(CurrentCache, height, chain, source, target) IN
        /\ SetCache(r.cache)
        /\ op' = Call("find_streams", <<source, target>>, r.outcome,
                      IF r.refreshed THEN height ELSE 0,
                      r.refreshed /\ ~UpToDate(last_logs_block, height),
                      r.result, <<>>, <<>>)
        /\ UNCHANGED <<chain, ledger, height, allowance, balance, restVars>>

\* get_contract_logs raises (a transport failure): line 115 never completes
FetchFails ==
    /\ ~UpToDate(last_logs_block, height)
    /\ op' = Call("all_streams", <<>>, "fetch_error", height, TRUE,
                  <<>>, <<>>, <<>>)
    /\ UNCHANGED <<chain, ledger, height, cacheVars, allowance, balance, restVars>>

\* building the Stream of a fetched log raises (lines 130-135)
FoldFails ==
    /\ ~UpToDate(last_logs_block, height)
    /\ \E k \in 1..Len(get_contract_logs(chain, last_logs_block, height)) :
        /\ IsStreamLog(get_contract_logs(chain, last_logs_block, height)[k])
        /\ SetCache(refresh_logs_raising(CurrentCache, height, chain, k))
    /\ op' = Call("all_streams", <<>>, "fold_error", height, TRUE,
                  <<>>, <<>>, <<>>)
    /\ UNCHANGED <<chain, ledger, height, allowance, balance, restVars>>

----------------------------------------------------------------------------
(* The LlamaPay contract: what each method emits, or that it reverts *)

Emits(events) == [ok |-> TRUE, events |-> events]

Reverts == [ok |-> FALSE, events |-> <<>>]

createStream(live, sender, to, rate) ==
    IF Key(sender, to, rate) \in live THEN Reverts
    ELSE Emits(<<StreamCreated(sender, to, rate)>>)

createStreamWithReason(live, sender, to, rate) ==
    IF Key(sender, to, rate) \in live THEN Reverts
    ELSE Emits(<<StreamCreatedWithReason(sender, to, rate)>>)

pauseStream(live, sender, to, rate) ==
    IF Key(sender, to, rate) \notin live THEN Reverts
    ELSE Emits(<<StreamPaused(sender, to, rate)>>)

cancelStream(live, sender, to, rate) ==
    IF Key(sender, to, rate) \notin live THEN Reverts
    ELSE Emits(<<StreamCancelled(sender, to, rate)>>)

modifyStream(live, sender, oldTo, oldRate, to, rate) ==
    IF \/ Key(sender, oldTo, oldRate) \notin live
       \/ Key(sender, to, rate) \in live \ {Key(sender, oldTo, oldRate)}
    THEN Reverts
    ELSE Emits(<<StreamModified(sender, oldTo, oldRate, to, rate)>>)

withdraw(live, from, to, rate) ==
    IF Key(from, to, rate) \notin live THEN Reverts
    ELSE Emits(<<Withdraw(from, to, rate)>>)

\* a transaction as the client submits it
Tx(method, sender, args) == [method |-> method, sender |-> sender, args |-> args]

\* a confirmed transaction is mined in a new block, which the node reports
Extend(events) ==
    /\ chain' = Append(chain, events)
    /\ ledger' = ApplyEvents(ledger, events)
    /\ height' = Len(chain) + 1

Mine(events) ==
    /\ Len(chain) < MaxHeight
    /\ Extend(events)

\* a write that files the streams of its receipt in the cache at once
TransactCaching(name, tx, r) ==
    /\ r.ok
    /\ Mine(r.events)
    /\ op' = Call(name, <<>>, "ok", 0, FALSE, <<>>, <<tx>>, r.events)
    /\ streams' = streams \o FoldLogs(r.events)
    /\ UNCHANGED <<last_logs_block, logs, allowance, balance, restVars>>

\* a client call that submits one transaction to the pool contract; a
\* reverted transaction raises and leaves everything as it was
Transact(name, tx, r) ==
    /\ r.ok
    /\ Mine(r.events)
    /\ op' = Call(name, <<>>, "ok", 0, FALSE, <<>>, <<tx>>, r.events)
    /\ UNCHANGED <<cacheVars, allowance, balance, restVars>>

----------------------------------------------------------------------------
(* Stream.create, pause, cancel, replace, send *)

StreamObjects == [source : Addresses, target : Addresses, rate : Rates]

\* line 230
create(s, sender) == Tx("createStream", sender, <<s.target, s.rate>>)

\* line 233
pause(s, sender) == Tx("pauseStream", sender, <<s.target, s.rate>>)

\* line 236
cancel(s, sender) == Tx("pauseStream", sender, <<s.target, s.rate>>)

\* lines 239-241
replace(s, stream, sender) ==
    Tx("modifyStream", sender, <<s.target, s.rate, stream.target, stream.rate>>)

\* line 247
send(s, sender) == Tx("withdraw", sender, <<s.source, s.target, s.rate>>)

\* what the contract does with a transaction
Execute(live, tx) ==
    CASE tx.method = "createStream" ->
            createStream(live, tx.sender, tx.args[1], tx.args[2])
      [] tx.method = "createStreamWithReason" ->
            createStreamWithReason(live, tx.sender, tx.args[1], tx.args[2])
      [] tx.method = "pauseStream" ->
            pauseStream(live, tx.sender, tx.args[1], tx.args[2])
      [] tx.method = "cancelStream" ->
            cancelStream(live, tx.sender, tx.args[1], tx.args[2])
      [] tx.method = "modifyStream" ->
            modifyStream(live, tx.sender, tx.args[1], tx.args[2],
                         tx.args[3], tx.args[4])
      [] tx.method = "withdraw" ->
            withdraw(live, tx.args[1], tx.args[2], tx.args[3])
      [] OTHER -> Reverts

\* the account the client signs with (sender=ape in the tests)
Sender == "ape"

\* another user of the same pool, who calls the contract directly
Other == "babe"

StreamCreate ==
    \E s \in StreamObjects :
        Transact("Stream.create", create(s, Sender),
                 Execute(ledger, create(s, Sender)))

StreamPause ==
    \E s \in StreamObjects :
        Transact("Stream.pause", pause(s, Sender),
                 Execute(ledger, pause(s, Sender)))

StreamCancel ==
    \E s \in StreamObjects :
        Transact("Stream.cancel", cancel(s, Sender),
                 Execute(ledger, cancel(s, Sender)))

StreamReplace ==
    \E s \in StreamObjects, stream \in StreamObjects :
        Transact("Stream.replace", replace(s, stream, Sender),
                 Execute(ledger, replace(s, stream, Sender)))

StreamSend ==
    \E s \in StreamObjects :
        Transact("Stream.send", send(s, Sender),
                 Execute(ledger, send(s, Sender)))

\* the same writes on a longer chain, for the streams of one payer to one
\* recipient
LongStreams == {s \in StreamObjects : s.source = Sender /\ s.target = Other}

LongWrite(name, tx) ==
    /\ Execute(ledger, tx).ok
    /\ Len(chain) < LongHeight
    /\ Extend(Execute(ledger, tx).events)
    /\ op' = Call(name, <<>>, "ok", 0, FALSE, <<>>, <<tx>>,
                  Execute(ledger, tx).events)
    /\ UNCHANGED <<cacheVars, allowance, balance, restVars>>

LongCreate == \E s \in LongStreams : LongWrite("Stream.create", create(s, Sender))

LongPause == \E s \in LongStreams : LongWrite("Stream.pause", pause(s, Sender))

LongReplace ==
    \E s \in LongStreams, stream \in LongStreams :
        LongWrite("Stream.replace", replace(s, stream, Sender))

OtherCancels ==
    \E to \in Addresses, rate \in Rates :
        LET r == Execute(ledger, Tx("cancelStream", Other, <<to, rate>>)) IN
        /\ r.ok
        /\ Mine(r.events)
        /\ UNCHANGED <<cacheVars, allowance, balance, op, restVars>>

OtherCreatesWithReason ==
    \E to \in Addresses, rate \in Rates :
        LET r == Execute(ledger, Tx("createStreamWithReason", Other, <<to, rate>>)) IN
        /\ r.ok
        /\ Mine(r.events)
        /\ UNCHANGED <<cacheVars, allowance, balance, op, restVars>>

\* a block in which the pool emits nothing
OtherBlock ==
    /\ Mine(<<>>)
    /\ UNCHANGED <<cacheVars, allowance, balance, op, restVars>>

\* the node answers with a height below the chain's (a lagging or
\* load-balanced node), or catches up
NodeLags ==
    /\ \E h \in deploy_block..Len(chain) : h # height /\ height' = h
    /\ UNCHANGED <<chain, ledger, cacheVars, allowance, balance, op, restVars>>

----------------------------------------------------------------------------
(* Pool.approve, deposit, withdraw *)

Amounts == 0..MaxAmount

\* Python truthiness of an Optional[Decimal]: None and 0 are false
AmountGiven(amount) == amount # NoAmount /\ amount # 0

\* line 174
ApprovedAmount(amount) ==
    IF amount = NoAmount THEN MaxUint ELSE amount * scale

\* line 175
approve(amount) == Tx("approve", Sender, <<ApprovedAmount(amount)>>)

\* line 184: the test that decides on the extra approve
NeedsApproval(allowed, amount) == allowed < amount

\* lines 184-187: the transactions deposit submits, in order
deposit(allowed, amount) ==
    (IF NeedsApproval(allowed, amount) THEN <<approve(amount)>> ELSE <<>>)
        \o <<Tx("deposit", Sender, <<amount * scale>>)>>

\* lines 196-199: the transaction withdraw submits
withdrawPayer(amount) ==
    IF AmountGiven(amount)
    THEN Tx("withdrawPayer", Sender, <<amount * scale>>)
    ELSE Tx("withdrawPayerAll", Sender, <<>>)

\* the token's allowance after the pool has pulled quantity from it
Spend(allowed, quantity) ==
    IF allowed = MaxUint THEN MaxUint ELSE allowed - quantity

PoolApprove ==
    \E amount \in Amounts \cup {NoAmount} :
        /\ Mine(<<>>)
        /\ allowance' = approve(amount).args[1]
        /\ op' = Call("approve", <<amount>>, "ok", 0, FALSE, <<>>,
                      <<approve(amount)>>, <<>>)
        /\ UNCHANGED <<cacheVars, balance, restVars>>

\* the approve, when submitted, is mined in a block of its own before the
\* deposit; the deposit reverts when the allowance does not cover it
PoolDeposit ==
    \E amount \in Amounts :
        LET calls == deposit(allowance, amount)
            quantity == calls[Len(calls)].args[1]
            allowed == IF Len(calls) = 2 THEN calls[1].args[1] ELSE allowance
            ok == allowed >= quantity
            blocks == (IF Len(calls) = 2 THEN << <<>> >> ELSE <<>>)
                        \o (IF ok THEN << <<PayerDeposit(Sender, quantity)>> >>
                            ELSE <<>>)
        IN  /\ Len(chain) + Len(blocks) <= MaxHeight
            /\ chain' = chain \o blocks
            /\ height' = Len(chain) + Len(blocks)
            /\ allowance' = IF ok THEN Spend(allowed, quantity) ELSE allowed
            /\ balance' = IF ok THEN balance + quantity ELSE balance
            /\ op' = Call("deposit", <<amount>>,
                          IF ok THEN "ok" ELSE "reverted", 0, FALSE, <<>>,
                          calls, IF ok THEN blocks[Len(blocks)] ELSE <<>>)
            /\ UNCHANGED <<ledger, cacheVars, restVars>>

\* withdrawPayer reverts when the balance does not cover the quantity;
\* withdrawPayerAll pays out the whole balance
PoolWithdraw ==
    \E amount \in Amounts \cup {NoAmount} :
        LET tx == withdrawPayer(amount)
            quantity == IF tx.method = "withdrawPayer" THEN tx.args[1]
                        ELSE balance
            ok == quantity <= balance
        IN  /\ IF ok THEN Mine(<<PayerWithdraw(Sender, quantity)>>)
                     ELSE UNCHANGED <<chain, ledger, height>>
            /\ balance' = IF ok THEN balance - quantity ELSE balance
            /\ op' = Call("withdraw", <<amount>>,
                          IF ok THEN "ok" ELSE "reverted", 0, FALSE, <<>>,
                          <<tx>>, IF ok THEN <<PayerWithdraw(Sender, quantity)>>
                                  ELSE <<>>)
            /\ UNCHANGED <<cacheVars, allowance, restVars>>

----------------------------------------------------------------------------
(* Factory.get_pool and Factory.create_pool *)

\* ape_tokens: the symbols the token list knows, and their addresses
Symbols == {"DAI", "UNI", "USDC", "YFI"}

TokenAddress(symbol) ==
    CASE symbol = "DAI" -> "0xDAI"
      [] symbol = "UNI" -> "0xUNI"
      [] symbol = "USDC" -> "0xUSDC"
      [] symbol = "YFI" -> "0xYFI"

Tokens == {TokenAddress(symbol) : symbol \in Symbols}

\* what get_pool and create_pool are called with: a symbol or an address
TokenRefs == Symbols \cup Tokens

\* lines 71-80: a symbol of the token list gives its address (the KeyError of
\* any other reference is passed over), and the result is converted
resolve_token(token) ==
    convert(IF token \in Symbols THEN TokenAddress(token) ELSE token)

\* the address the factory computes for the pool of a token, deployed or not
PoolAddress(token) == <<"LlamaPay", token>>

\* LlamaPayFactory.getLlamaPayContractByToken
getLlamaPayContractByToken(deployed, token) ==
    [address |-> PoolAddress(token), is_deployed |-> token \in deployed]

\* get_pool handing out a Pool without looking at is_deployed
get_pool_unchecked(deployed, token) ==
    [outcome |-> "ok",
     value |-> getLlamaPayContractByToken(deployed, resolve_token(token)).address]

\* lines 37-42: the Pool returned (its address), or the PoolNotDeployed raised
\* (the address its message carries)
get_pool(deployed, token) ==
    LET found == getLlamaPayContractByToken(deployed, resolve_token(token)) IN
    IF ~found.is_deployed
    THEN [outcome |-> "PoolNotDeployed", value |-> found.address]
    ELSE [outcome |-> "ok", value |-> found.address]

FactoryGetPool ==
    \E token \in TokenRefs :
        /\ op' = Call("get_pool", <<token>>, get_pool(pools, token).outcome,
                      0, FALSE, <<get_pool(pools, token).value>>, <<>>, <<>>)
        /\ UNCHANGED <<chain, ledger, height, cacheVars, allowance, balance,
                       pools, held, threads>>

\* lines 48-51: createLlamaPayContract deploys the pool of the token (and
\* reverts when it is deployed already), then get_pool looks it up
FactoryCreatePool ==
    \E token \in TokenRefs :
        /\ resolve_token(token) \notin pools
        /\ pools' = pools \cup {resolve_token(token)}
        /\ op' = Call("create_pool", <<token>>,
                      get_pool(pools', resolve_token(token)).outcome, 0, FALSE,
                      <<get_pool(pools', resolve_token(token)).value>>,
                      <<Tx("createLlamaPayContract", Sender,
                           <<resolve_token(token)>>)>>, <<>>)
        /\ UNCHANGED <<chain, ledger, height, cacheVars, allowance, balance,
                       held, threads>>

----------------------------------------------------------------------------
(* Rate *)

\* the fixed-point scale of a rate (10**20 in the protocol; scaled down so
\* that the products stay within TLC's integers)
PRECISION == 1000

Periods == {"day", "week", "month", "year"}

DURATION_TO_SECONDS(period) ==
    CASE period = "day" -> 86400
      [] period = "week" -> 604800
      [] period = "month" -> 2592000
      [] period = "year" -> 31104000

(* A Decimal, as the fraction num / den in lowest terms, den > 0 *)

RECURSIVE GCD(_, _)
GCD(a, b) == IF b = 0 THEN a ELSE GCD(b, a % b)

Abs(n) == IF n < 0 THEN -n ELSE n

Decimal(num, den) ==
    LET g == GCD(Abs(num), den) IN [num |-> num \div g, den |-> den \div g]

\* int(): the integer part, towards zero
int(d) == IF d.num >= 0 THEN d.num \div d.den ELSE -((-d.num) \div d.den)

\* Rate(amount, period, token, raw_value); raw_value is <<>> for None
Rate(amount, period, token, raw_value) ==
    [amount |-> amount, period |-> period, token |-> token,
     raw_value |-> raw_value]

NoRate == Rate(Decimal(0, 1), "month", None, <<>>)

\* line 271: raw_value or int(amount * PRECISION / DURATION_TO_SECONDS[period])
per_sec(r) ==
    IF r.raw_value # <<>> /\ r.raw_value[1] # 0
    THEN r.raw_value[1]
    ELSE int(Decimal(r.amount.num * PRECISION,
                     r.amount.den * DURATION_TO_SECONDS(r.period)))

\* parse_int keeping a whole number of tokens per month and no raw value
parse_int_rounding(r) ==
    Rate(Decimal((r * DURATION_TO_SECONDS("month")) \div PRECISION, 1),
         "month", None, <<>>)

\* lines 280-286
parse_int(r) ==
    Rate(Decimal(r * DURATION_TO_SECONDS("month"), PRECISION), "month", None,
         <<r>>)

(* The amount of a string rate, as its characters *)

Digits == <<"0", "1", "2", "3", "4", "5", "6", "7", "8", "9">>

DigitValue(c) == (CHOOSE i \in 1..10 : Digits[i] = c) - 1

IsDigit(c) == \E i \in 1..10 : Digits[i] = c

\* line 299: amount.replace(",", "_")
RECURSIVE replace_commas(_)
replace_commas(text) ==
    IF text = <<>> THEN <<>>
    ELSE <<IF Head(text) = "," THEN "_" ELSE Head(text)>>
            \o replace_commas(Tail(text))

\* Decimal(text) for a text of digits and underscores: the underscores are
\* dropped and the digits read in base ten
RECURSIVE DigitsValue(_, _)
DigitsValue(text, sofar) ==
    IF text = <<>> THEN sofar
    ELSE DigitsValue(Tail(text),
                     IF Head(text) = "_" THEN sofar
                     ELSE 10 * sofar + DigitValue(Head(text)))

\* whether Decimal(text) parses: digits and underscores, a digit among them
IsNumber(text) ==
    /\ \A i \in 1..Len(text) : IsDigit(text[i]) \/ text[i] = "_"
    /\ \E i \in 1..Len(text) : IsDigit(text[i])

\* lines 290-301, for a rate "AMOUNT[ TOKEN]/PERIOD" already split at the
\* slash and the blank: the Rate, or the error raised
parse_str(amount, token, period) ==
    IF period \notin Periods THEN [outcome |-> "AssertionError", rate |-> NoRate]
    ELSE IF ~IsNumber(replace_commas(amount))
    THEN [outcome |-> "InvalidOperation", rate |-> NoRate]
    ELSE [outcome |-> "ok",
          rate |-> Rate(Decimal(DigitsValue(replace_commas(amount), 0), 1),
                        period, token, <<>>)]

\* the amounts a Rate is built with directly
DecimalAmounts == {Decimal(0, 1), Decimal(1, 2), Decimal(100, 1),
                   Decimal(250000, 1)}

\* the raw values a Rate is built with or parsed from
RawValues == {-2, 0, 1, 38, 500}

\* the amount texts of the string rates: "0", "10", "10_000", "100,000",
\* "1000000", "1o"
AmountTexts ==
    { <<"0">>, <<"1", "0">>, <<"1", "0", "_", "0", "0", "0">>,
      <<"1", "0", "0", ",", "0", "0", "0">>,
      <<"1", "0", "0", "0", "0", "0", "0">>, <<"1", "o">> }

RateNew ==
    \E amount \in DecimalAmounts, period \in Periods,
       raw \in {<<>>} \cup {<<r>> : r \in RawValues} :
        /\ held' = Rate(amount, period, None, raw)
        /\ op' = Call("Rate", <<>>, "ok", 0, FALSE, <<>>, <<>>, <<>>)
        /\ UNCHANGED <<chain, ledger, height, cacheVars, allowance, balance,
                       pools, threads>>

RateParseInt ==
    \E r \in RawValues :
        /\ held' = parse_int(r)
        /\ op' = Call("Rate.parse_int", <<r>>, "ok", 0, FALSE, <<>>, <<>>, <<>>)
        /\ UNCHANGED <<chain, ledger, height, cacheVars, allowance, balance,
                       pools, threads>>

RateParseStr ==
    \E amount \in AmountTexts, token \in {"DAI", None},
       period \in Periods \cup {"hour"} :
        /\ held' = IF parse_str(amount, token, period).outcome = "ok"
                   THEN parse_str(amount, token, period).rate ELSE held
        /\ op' = Call("Rate.parse_str", <<amount, token, period>>,
                      parse_str(amount, token, period).outcome, 0, FALSE,
                      <<>>, <<>>, <<>>)
        /\ UNCHANGED <<chain, ledger, height, cacheVars, allowance, balance,
                       pools, threads>>

RatePerSec ==
    /\ op' = Call("Rate.per_sec", <<>>, "ok", 0, FALSE, <<per_sec(held)>>,
                  <<>>, <<>>)
    /\ UNCHANGED <<chain, ledger, height, cacheVars, allowance, balance,
                   pools, held, threads>>

----------------------------------------------------------------------------

(* _refresh_logs called from several threads on one Pool: each call runs
   its lines in order, and the calls interleave between the lines *)

Threads == {"t1", "t2"}

\* the locals of a call: where it is, and its start, head and logs
Locals(pc, start, head, fetched) ==
    [pc |-> pc, start |-> start, head |-> head, fetched |-> fetched]

Idle == Locals("idle", 0, 0, <<>>)

ThreadStep(t, locals) ==
    /\ threads' = [threads EXCEPT ![t] = locals]
    /\ UNCHANGED <<chain, ledger, height, allowance, balance, op, pools, held>>

\* the fold that keeps only the streams of the logs this call fetched
fold_replacing(ss, log) == IF IsStreamLog(log) THEN <<StreamOf(log)>> ELSE <<>>

\* lines 127-136, for one log: the Stream appended to _streams
fold(ss, log) == ss \o (IF IsStreamLog(log) THEN <<StreamOf(log)>> ELSE <<>>)

\* line 110
ReadStart(t) ==
    /\ threads[t].pc = "idle"
    /\ ThreadStep(t, Locals("head", last_logs_block, 0, <<>>))
    /\ UNCHANGED cacheVars

\* lines 111-113
ReadHead(t) ==
    /\ threads[t].pc = "head"
    /\ ThreadStep(t, IF UpToDate(threads[t].start, height) THEN Idle
                     ELSE Locals("fetch", threads[t].start, height, <<>>))
    /\ UNCHANGED cacheVars

\* lines 115-122
Fetch(t) ==
    /\ threads[t].pc = "fetch"
    /\ ThreadStep(t, Locals("checkpoint", threads[t].start, threads[t].head,
                            get_contract_logs(chain, threads[t].start,
                                              threads[t].head)))
    /\ UNCHANGED cacheVars

\* line 124
WriteCheckpoint(t) ==
    /\ threads[t].pc = "checkpoint"
    /\ last_logs_block' = NextLogsBlock(threads[t].head)
    /\ ThreadStep(t, [threads[t] EXCEPT !.pc = "extend"])
    /\ UNCHANGED <<logs, streams>>

\* line 125
ExtendLogs(t) ==
    /\ threads[t].pc = "extend"
    /\ logs' = logs \o threads[t].fetched
    /\ ThreadStep(t, [threads[t] EXCEPT !.pc = "fold"])
    /\ UNCHANGED <<last_logs_block, streams>>

\* lines 127-136, one turn of the loop
FoldOne(t) ==
    /\ threads[t].pc = "fold"
    /\ threads[t].fetched # <<>>
    /\ streams' = fold(streams, Head(threads[t].fetched))
    /\ ThreadStep(t, [threads[t] EXCEPT !.fetched = Tail(@)])
    /\ UNCHANGED <<last_logs_block, logs>>

\* the loop is over: the call returns
Return(t) ==
    /\ threads[t].pc = "fold"
    /\ threads[t].fetched = <<>>
    /\ ThreadStep(t, Idle)
    /\ UNCHANGED cacheVars

Init ==
    /\ chain = [n \in 1..deploy_block |-> <<>>]
    /\ ledger = {}
    /\ height = deploy_block
    /\ last_logs_block = deploy_block
    /\ logs = <<>>
    /\ streams = <<>>
    /\ allowance = 0
    /\ balance = 0
    /\ op = NoCall
    /\ pools = {}
    /\ held = NoRate
    /\ threads = [t \in Threads |-> Idle]

Ledger ==
    \/ StreamCreate
    \/ StreamPause
    \/ StreamCancel
    \/ StreamReplace
    \/ StreamSend
    \/ OtherCancels
    \/ OtherCreatesWithReason
    \/ OtherBlock

Next ==
    \/ Ledger
    \/ AllStreams
    \/ FindStreams

Spec == Init /\ [][Next]_vars

\* the same, with a node that may report a lower height and a refresh that
\* may fail
NextFaulty ==
    \/ Ledger
    \/ AllStreams
    \/ NodeLags
    \/ FetchFails
    \/ FoldFails

SpecFaulty == Init /\ [][NextFaulty]_vars

\* the token operations of the pool, with the cache reading what they emit
NextFacade ==
    \/ PoolApprove
    \/ PoolDeposit
    \/ PoolWithdraw
    \/ AllStreams

SpecFacade == Init /\ [][NextFacade]_vars

\* the factory
NextFactory ==
    \/ FactoryGetPool
    \/ FactoryCreatePool

SpecFactory == Init /\ [][NextFactory]_vars

\* the rates
NextRate ==
    \/ RateNew
    \/ RateParseInt
    \/ RateParseStr
    \/ RatePerSec

SpecRate == Init /\ [][NextRate]_vars

\* one payer and one recipient on a longer chain, with a refresh that may fail
NextLong ==
    \/ LongCreate
    \/ LongPause
    \/ LongReplace
    \/ AllStreams
    \/ FoldFails

SpecLong == Init /\ [][NextLong]_vars

\* every write operation of the client, with the cache reading the ledger
NextWrites ==
    \/ StreamCreate
    \/ StreamPause
    \/ StreamCancel
    \/ StreamReplace
    \/ StreamSend
    \/ PoolApprove
    \/ PoolDeposit
    \/ PoolWithdraw
    \/ AllStreams

SpecWrites == Init /\ [][NextWrites]_vars

\* two threads refreshing one Pool while the chain grows
NextThreads ==
    \/ StreamCreate
    \/ OtherBlock
    \/ \E t \in Threads :
        \/ ReadStart(t)
        \/ ReadHead(t)
        \/ Fetch(t)
        \/ WriteCheckpoint(t)
        \/ ExtendLogs(t)
        \/ FoldOne(t)
        \/ Return(t)

SpecThreads == Init /\ [][NextThreads]_vars

----------------------------------------------------------------------------
(* What the claims speak of *)

RECURSIVE Count(_, _)
Count(seq, x) ==
    IF seq = <<>> THEN 0
    ELSE (IF Head(seq) = x THEN 1 ELSE 0) + Count(Tail(seq), x)

\* an event that brings a stream into being, and that stream
Introduces(e) ==
    e.name \in {"StreamCreated", "StreamCreatedWithReason", "StreamModified"}

RECURSIVE Introduced(_)
Introduced(es) ==
    IF es = <<>> THEN <<>>
    ELSE (IF Introduces(Head(es))
          THEN <<[source |-> Head(es).from, target |-> Head(es).to,
                  rate |-> Head(es).amountPerSec]>>
          ELSE <<>>) \o Introduced(Tail(es))

\* the streams brought into being in blocks from..to, one per event
IntroducedIn(ch, from, to) == Introduced(EventsIn(ch, from, to))

\* every stream of seq b is in seq a at least as many times
Covers(a, b) == \A s \in StreamObjects : Count(a, s) >= Count(b, s)

\* the last call was a refresh that returned normally
Refreshed ==
    /\ op.name \in {"all_streams", "find_streams"}
    /\ op.outcome = "ok"
    /\ op.head > 0

KeyOf(s) == Key(s.source, s.target, s.rate)

(* C1: after a refresh that returned normally having read height head, every
   stream-creating event of blocks deploy_block..head has its Stream in
   _streams.  The code returns early when _last_logs_block = head, so the
   events of block head are not there. *)
C1_HeadProcessed ==
    Refreshed => Covers(streams, IntroducedIn(chain, deploy_block, op.head))

(* C2: for every checkpoint s and heights h1 <= h2, refreshing at h1 and then
   at h2 accumulates every stream that one refresh from s at h2 does. *)
C2_SplitLosesNothing ==
    \A s \in deploy_block..Len(chain), h1 \in 1..Len(chain), h2 \in 1..Len(chain) :
        h1 <= h2 =>
            Covers(refresh_logs(refresh_logs(Cache(s, <<>>, <<>>), h1, chain),
                                h2, chain).streams,
                   refresh_logs(Cache(s, <<>>, <<>>), h2, chain).streams)

(* C3: a refresh that fails, in the fetch or while folding a fetched event,
   leaves _last_logs_block and _streams as they were. *)
C3_FailureLeavesCache ==
    [][(op'.name = "all_streams" /\ (FetchFails \/ FoldFails))
            => UNCHANGED <<last_logs_block, streams>>]_vars

(* C4: the receipt of Stream.cancel holds a StreamCancelled event. *)
C4_CancelEmitsCancelled ==
    (op.name = "Stream.cancel" /\ op.outcome = "ok")
        => \E i \in 1..Len(op.receipt) : op.receipt[i].name = "StreamCancelled"

(* C5: deposit(amount) submits an approve before the deposit exactly when the
   allowance is below amount * scale, so that the deposit is never submitted
   with an allowance below the quantity deposited. *)
C5_DepositApproves ==
    [][(op'.name = "deposit" /\ PoolDeposit) =>
        LET quantity == op'.args[1] * scale
            approves == Len(op'.calls) = 2 /\ op'.calls[1].method = "approve"
            allowed  == IF approves THEN op'.calls[1].args[1] ELSE allowance
        IN  /\ approves <=> allowance < quantity
            /\ op'.calls[Len(op'.calls)] = Tx("deposit", Sender, <<quantity>>)
            /\ allowed >= quantity]_vars

(* C6: withdraw submits withdrawPayerAll only when the amount is omitted, and
   withdrawPayer(amount * scale) for every amount given, zero included. *)
C6_WithdrawAllOnlyWhenOmitted ==
    op.name = "withdraw" =>
        /\ Len(op.calls) = 1
        /\ op.calls[1] = IF op.args[1] = NoAmount
                         THEN Tx("withdrawPayerAll", Sender, <<>>)
                         ELSE Tx("withdrawPayer", Sender, <<op.args[1] * scale>>)

(* C7, as claimed: every Stream returned by all_streams / find_streams is live
   on the ledger as of the last block scanned. *)
C7_ReturnedStreamsLive ==
    Refreshed =>
        \A i \in 1..Len(op.result) :
            KeyOf(op.result[i]) \in LiveAt(chain, last_logs_block - 1)

(* C7, amended: every Stream returned by all_streams / find_streams is the
   stream of a StreamCreated / StreamCreatedWithReason / StreamModified event
   of a scanned block, one event per returned Stream; it may since have been
   cancelled, paused or replaced. *)
C7_ReturnedStreamsIntroduced ==
    Refreshed =>
        Covers(IntroducedIn(chain, deploy_block, last_logs_block - 1), op.result)

\* a stream is returned that is no longer live on the ledger
C7_Witness ==
    /\ Refreshed
    /\ \E i \in 1..Len(op.result) :
        KeyOf(op.result[i]) \notin LiveAt(chain, last_logs_block - 1)

(* C8: _last_logs_block never decreases, whatever height the node reports
   between refreshes and whether or not a refresh fails. *)
C8_CheckpointMonotonic ==
    [][last_logs_block' >= last_logs_block]_vars

\* a refresh has run with a height reported below the blocks already scanned
C8_Witness ==
    /\ op.name = "all_streams"
    /\ op.outcome = "ok"
    /\ op.head < last_logs_block - 1
    /\ streams # <<>>

(* C9: a refresh with no new blocks (_last_logs_block >= head) fetches nothing
   and leaves _streams, _logs and _last_logs_block as they were. *)
C9_EmptyDeltaNoOp ==
    [][(op'.name \in {"all_streams", "find_streams"}
            /\ (AllStreams \/ FindStreams)
            /\ last_logs_block >= height)
        => (UNCHANGED cacheVars /\ ~op'.fetched)]_vars

\* a refresh has run with the checkpoint at the head, after streams were
\* cached, and has fetched nothing
C9_Witness ==
    /\ op.name = "all_streams"
    /\ op.head = last_logs_block
    /\ ~op.fetched
    /\ streams # <<>>

(* C10: find_streams with neither source nor target raises ValueError and
   leaves _last_logs_block, _logs and _streams as they were. *)
C10_NoFilterFails ==
    [][(op'.name = "find_streams" /\ FindStreams /\ op'.args = <<None, None>>)
        => (op'.outcome = "ValueError" /\ op'.result = <<>>
            /\ UNCHANGED cacheVars)]_vars

\* find_streams has failed for want of a filter while blocks were waiting to
\* be scanned
C10_Witness ==
    /\ op.name = "find_streams"
    /\ op.outcome = "ValueError"
    /\ last_logs_block < height
    /\ IntroducedIn(chain, last_logs_block, height) # <<>>

\* the address a filter of find_streams stands for
Resolved(ref) == IF ref = "ape.eth" THEN "ape" ELSE ref

\* the streams of ss from source (when given) to target (when given), in order
Selected(ss, source, target) ==
    LET Wanted(s) == /\ (source # None => s.source = source)
                     /\ (target # None => s.target = target)
    IN  SelectSeq(ss, Wanted)

(* C11: find_streams with at least one filter refreshes the cache and then
   returns, in cache order, exactly the cached streams whose source is the
   resolved source filter (when given) and whose target is the resolved target
   filter (when given). *)
C11_FindStreamsFilters ==
    [][(op'.name = "find_streams" /\ FindStreams
            /\ op'.args # <<None, None>>)
        => /\ op'.outcome = "ok"
           /\ Cache(last_logs_block', logs', streams')
                = refresh_logs(CurrentCache, height, chain)
           /\ op'.result = Selected(streams', Resolved(op'.args[1]),
                                    Resolved(op'.args[2]))]_vars

\* find_streams has run with both filters, has fetched, and has returned some
\* of the cached streams and left others out
C11_Witness ==
    /\ op.name = "find_streams"
    /\ op.outcome = "ok"
    /\ op.args = <<"ape.eth", "babe">>
    /\ op.fetched
    /\ op.result # <<>>
    /\ Len(op.result) < Len(streams)

(* C12: get_pool(token) raises PoolNotDeployed carrying the factory's
   deterministic address when the factory reports the pool of the resolved
   token as not deployed, and returns the Pool at that address otherwise; no
   Pool is returned for an address that is not deployed. *)
C12_GetPoolDeployedOnly ==
    op.name = "get_pool" =>
        LET token == IF op.args[1] \in Symbols THEN TokenAddress(op.args[1])
                     ELSE op.args[1]
        IN  /\ op.result = <<PoolAddress(token)>>
            /\ op.outcome = IF token \in pools THEN "ok" ELSE "PoolNotDeployed"

\* get_pool has failed for a symbol whose pool is not deployed while another
\* pool is
C12_Witness ==
    /\ op.name = "get_pool"
    /\ op.outcome = "PoolNotDeployed"
    /\ op.args[1] \in Symbols
    /\ pools # {}

(* C13: Rate.per_sec is raw_value whenever raw_value is present, 0 included
   and whatever amount and period are, and otherwise
   amount * PRECISION / seconds(period) cut to an integer. *)
C13_PerSecOfRawOrAmount ==
    op.name = "Rate.per_sec" =>
        op.result =
            <<IF held.raw_value # <<>> THEN held.raw_value[1]
              ELSE (held.amount.num * PRECISION)
                     \div (held.amount.den * DURATION_TO_SECONDS(held.period))>>

(* C14: for every integer r, the Rate parsed from r has period "month" and
   raw_value r, and its per_sec is r. *)
C14_IntegerRoundTrip ==
    op.name = "Rate.parse_int" =>
        /\ held.period = "month"
        /\ held.raw_value = <<op.args[1]>>
        /\ per_sec(held) = op.args[1]

\* a positive integer has been parsed whose monthly amount is not whole
C14_Witness ==
    /\ op.name = "Rate.parse_int"
    /\ op.args[1] > 0
    /\ held.amount.num > 0

\* a step of a write operation of the client
Write ==
    \/ StreamCreate
    \/ StreamPause
    \/ StreamCancel
    \/ StreamReplace
    \/ StreamSend
    \/ PoolApprove
    \/ PoolDeposit
    \/ PoolWithdraw

(* C15: Stream.create, pause, cancel, replace and send and Pool.approve,
   deposit and withdraw leave _last_logs_block, _logs and _streams as they
   were; what they emit is in a block the cache has not scanned. *)
C15_WritesLeaveCache ==
    [][Write => /\ UNCHANGED <<last_logs_block, logs, streams>>
                /\ (chain' # chain => Len(chain') >= last_logs_block')]_vars

\* a stream has been created while the cache, filled by an earlier refresh,
\* does not hold it
C15_Witness ==
    /\ op.name = "Stream.create"
    /\ streams # <<>>
    /\ Count(streams, StreamOf(op.receipt[1])) = 0

\* no call of _refresh_logs is in flight
Quiescent == \A t \in Threads : threads[t] = Idle

(* C17: when the calls of _refresh_logs on one Pool interleave between their
   lines, then once all of them have returned every stream-creating event of
   blocks deploy_block .. _last_logs_block - 1 has its Stream in _streams at
   least once. *)
C17_InterleavedRefreshLosesNothing ==
    Quiescent =>
        Covers(streams, IntroducedIn(chain, deploy_block, last_logs_block - 1))

\* two calls have overlapped and returned: a stream is cached twice though it
\* was created once
C17_Witness ==
    /\ Quiescent
    /\ \E s \in StreamObjects :
        /\ Count(streams, s) = 2
        /\ Count(IntroducedIn(chain, deploy_block, Len(chain)), s) = 1

(* C18: under sequential use, between operations _streams is exactly the
   Streams of the stream-creating events of blocks
   deploy_block .. _last_logs_block - 1, one per event, in block and log
   order.  A refresh that raises while building a Stream has moved the
   checkpoint past events it has not folded. *)
C18_CacheIsScannedRange ==
    streams = IntroducedIn(chain, deploy_block, last_logs_block - 1)

\* the streams a list of events appends: one for each StreamCreated,
\* StreamCreatedWithReason and StreamModified, from its from, to and
\* amountPerSec, and none for any other event
RECURSIVE Appended(_)
Appended(es) ==
    IF es = <<>> THEN <<>>
    ELSE LET e == Head(es) IN
         (CASE e.name = "StreamCreated" ->
                    <<[source |-> e.from, target |-> e.to, rate |-> e.amountPerSec]>>
            [] e.name = "StreamCreatedWithReason" ->
                    <<[source |-> e.from, target |-> e.to, rate |-> e.amountPerSec]>>
            [] e.name = "StreamModified" ->
                    <<[source |-> e.from, target |-> e.to, rate |-> e.amountPerSec]>>
            [] OTHER -> <<>>) \o Appended(Tail(es))

(* C19: a refresh that fetches appends to _streams one Stream for each
   fetched StreamCreated, StreamCreatedWithReason and StreamModified event,
   built from the event's from, to and amountPerSec (the new recipient and
   rate of a StreamModified), and nothing for an event of any other kind. *)
C19_FoldsCreatingKinds ==
    [][(op'.name = "all_streams" /\ AllStreams /\ op'.fetched)
        => streams' = streams
                \o Appended(EventsIn(chain, last_logs_block, op'.head))]_vars

\* a StreamCreated, a StreamModified and a StreamPaused have been fetched: the
\* cache holds the stream created, then the new side of the modification,
\* and nothing for the pause
C19_Witness ==
    /\ op.name = "all_streams"
    /\ op.fetched
    /\ Len(logs) = 3
    /\ logs[1].name = "StreamCreated"
    /\ logs[2].name = "StreamModified"
    /\ logs[3].name = "StreamPaused"
    /\ Len(streams) = 2
    /\ streams[2] # streams[1]
    /\ last_logs_block = LongHeight + 1

\* seq a is the beginning of seq b
IsPrefix(a, b) == Len(a) <= Len(b) /\ SubSeq(b, 1, Len(a)) = a

(* C20: _streams is append-only: over every operation, its value before is a
   prefix of its value after; nothing is removed, replaced, reordered or
   deduplicated. *)
C20_StreamsAppendOnly ==
    [][IsPrefix(streams, streams')]_vars

\* the same triple has been created, paused and created again: the cache
\* holds it twice
C20_Witness ==
    /\ op.name = "all_streams"
    /\ Len(streams) = 2
    /\ streams[1] = streams[2]
    /\ Len(logs) = 3
    /\ logs[2].name = "StreamPaused"

====
